---- MODULE Spec2Model ----
(***************************************************************************)
(* Model of package glsl (glsl.go): an off-screen fragment-shader renderer *)
(* with a ring of three pixel-pack buffers.  NewShader builds the          *)
(* pipeline, Image renders one frame, Animate streams frames to a channel  *)
(* until a cancel channel fires, Close releases the GL objects.            *)
(*                                                                         *)
(* Values written to a uniform are triples <<tag, a, b>>:                  *)
(*   <<"zero", 0, 0>>   the value a uniform has after linking              *)
(*   <<"const", v, 0>>  written by a caller-supplied setter                *)
(*   <<"vec2", w, h>>   written by the default `resolution` setter         *)
(*   <<"f32", n, d>>    the quotient float32(n)/float32(d) written by the  *)
(*                      `time` setter of Animate (n already rounded)       *)
(* A setter (a func(int32) of the source) is <<kind, v>>; maps keyed by    *)
(* uniform name are total functions over AllNames with an Absent marker.   *)
(***************************************************************************)
EXTENDS Integers, Sequences, FiniteSets, TLC

\* ---------------------------------------------------------------- bounds
MaxFrame == 4
MaxCalls == 3
MaxAnimates == 1
MaxShaders == 2
MaxCap == 1

\* ------------------------------------------------------ program constants
NumPbos == 3
Second == 1000000000
F32Mantissa == 16777216

AllNames == {"resolution", "time"}
SetterValues == {1}
Intervals == {1000000, 16666667}
Sizes == {<<2, 1>>}

Absent == <<"absent", 0>>
CallerSetters == {<<"set", v>> : v \in SetterValues}
\* the maps a caller passes: any name bound or not
Bindings == [AllNames -> CallerSetters \cup {Absent}]
NoLoc == -1
Locations == 0 .. 1
Slots == 0 .. (NumPbos - 1)

ZeroValue == <<"zero", 0, 0>>
ZeroUniforms == [l \in Locations |-> ZeroValue]
Blank == [u |-> ZeroUniforms, w |-> 0, h |-> 0]

GLKinds == {"program", "fbo", "rbo", "canvas", "pbo0", "pbo1", "pbo2"}
Kinds == GLKinds \cup {"window"}
Outcomes == {"ok", "initErr", "windowErr", "glInitErr", "linkErr"}

VARIABLES
    onceDone,     \* glfwInitOnce has run its function
    initCalls,    \* number of executions of glfw.Init
    glfwOk,       \* glfw.Init succeeded
    pendingOk,    \* NewShader calls past line 40 with err = nil, not yet further
    pendingErr,   \* NewShader calls past line 40 holding the error of glfw.Init
    windowCalls,  \* number of calls of glfw.CreateWindow
    shCount,      \* number of NewShader calls made
    shState,      \* "none" | "live" | "closed" | "failed": the Shader in hand
    newErr,       \* error returned by the last NewShader ("nil" or a stage)
    w, h,         \* sh.w, sh.h
    uniforms,     \* sh.uniforms: name -> location, NoLoc when not in the table
    glUniform,    \* the program's uniform values, by location
    fb,           \* contents of the render target
    pbos,         \* contents of the pixel-pack buffers, by slot
    live,         \* resources allocated and not released: <<shader, kind>>
    relLog,       \* resources released, in order
    closeErr,     \* value returned by the last Close ("none" before any)
    calls,        \* Image/Animate calls made so far
    animates,     \* Animate calls made so far
    lastCall,     \* the last Image/Animate call: [op, b] with b as passed
    repeated,     \* the last call is an Image that repeats the Image before it
    ret,          \* image returned by the last call (Blank: Animate returns none)
    uv,           \* the uniformValues map of the last Image/Animate call
    pc,           \* Animate: "idle" | "loop" | "select" | "done"
    frame,        \* Animate: loop counter
    t,            \* Animate: elapsed time.Duration
    interval,     \* Animate: its interval argument
    img,          \* Animate: image waiting at the select
    cancelled,    \* the cancel channel is closed
    cap,          \* capacity of the stream channel
    buf,          \* images buffered in the stream channel
    receiving,    \* a consumer is blocked receiving from stream
    delivered,    \* images sent on stream by the current Animate, in order
    drawCount,    \* drawImage calls issued by the current Image/Animate
    reqAt,        \* per slot: drawCount when its transfer was requested
    lastRead,     \* last downloadImage: [slot, age] (age = draws since request)
    lastInvoked,  \* last drawImage: name -> setter invoked (Absent if none)
    offered,      \* current Animate: the iterations whose image was read back
    selects       \* current Animate: number of times it entered the select

vars == <<onceDone, initCalls, glfwOk, pendingOk, pendingErr, windowCalls, shCount, shState, newErr, w, h, uniforms,
          glUniform, fb, pbos, live, relLog, closeErr, calls, animates, lastCall,
          repeated, ret, uv, pc, frame, t, interval, img, cancelled, cap, buf, receiving,
          delivered, drawCount, reqAt, lastRead, lastInvoked, offered, selects>>

onceVars == <<onceDone, initCalls, glfwOk, pendingOk, pendingErr, windowCalls>>
shVars == <<shCount, shState, newErr, w, h, uniforms>>
resVars == <<live, relLog, closeErr>>
glVars == <<glUniform, fb, pbos>>
animVars == <<pc, frame, t, interval, img>>
chanVars == <<cap, buf, receiving, delivered>>
obsVars == <<drawCount, reqAt, lastRead, lastInvoked, offered, selects>>

NoCall == [op |-> "none", b |-> [n \in AllNames |-> Absent]]
NoRead == [slot |-> -1, age |-> -1]
NoInvoked == [n \in AllNames |-> Absent]

\* --------------------------------------------------------------- helpers

\* The uniform tables ListUniforms can return: any subset of the names,
\* with distinct locations handed out from 0.
NameOrder == [n \in AllNames |-> IF n = "resolution" THEN 0 ELSE 1]

TableOf(S) ==
    [n \in AllNames |->
        IF n \in S
        THEN Cardinality({m \in S : NameOrder[m] < NameOrder[n]})
        ELSE NoLoc]

Tables == {TableOf(S) : S \in {{}, {"time"}, AllNames}}

\* float32(x) for an integer x: round to a 24-bit mantissa, ties to even.
RECURSIVE Quantum(_, _)
Quantum(x, q) == IF x \div q < F32Mantissa THEN q ELSE Quantum(x, 2 * q)

F32Pos(x) ==
    LET q == Quantum(x, 1)
        r == x % q
        base == x - r
    IN  IF 2 * r < q THEN base
        ELSE IF 2 * r > q THEN base + q
        ELSE IF (base \div q) % 2 = 0 THEN base ELSE base + q

F32(x) == IF x < 0 THEN 0 - F32Pos(0 - x) ELSE F32Pos(x)

\* float32(t)/float32(time.Second), kept as the quotient of the two floats.
TimeValue(d) == <<"f32", F32(d), F32(Second)>>

\* What calling a setter writes: a caller's setter writes its constant, the
\* default resolution setter writes (sh.w, sh.h), the time setter writes the
\* value of Animate's variable t at the moment it is called.
SetterWrites(s, ww, hh, tt) ==
    IF s[1] = "set" THEN <<"const", s[2], 0>>
    ELSE IF s[1] = "resolution" THEN <<"vec2", ww, hh>>
    ELSE TimeValue(tt)

ResolutionSetter == <<"resolution", 0>>
TimeSetter == <<"clock", 0>>

\* gl.DrawArrays: the fragment program is a deterministic function of the
\* uniform values and the size of the render target.
Render(gu, ww, hh) == [u |-> gu, w |-> ww, h |-> hh]

\* drawImage without the `ok` test of line 126: a name missing from the table
\* yields the zero Uniform, whose Location is 0.
DrawUniformsNoOk(gu, table, m, ww, hh, tt) ==
    LET loc(n) == IF table[n] = NoLoc THEN 0 ELSE table[n]
    IN  [l \in Locations |->
            IF \E n \in AllNames : m[n] # Absent /\ loc(n) = l
            THEN LET n == CHOOSE x \in AllNames : m[x] # Absent /\ loc(x) = l
                 IN  SetterWrites(m[n], ww, hh, tt)
            ELSE gu[l]]

\* drawImage, lines 125-129: every setter whose name is in sh.uniforms is
\* called with that uniform's location; the others are skipped.
Invoked(table, m) ==
    [n \in AllNames |-> IF m[n] # Absent /\ table[n] # NoLoc THEN m[n] ELSE Absent]

\* the setters write to distinct locations, so the order of the map
\* iteration does not show
DrawUniforms(gu, table, m, ww, hh, tt) ==
    [l \in Locations |->
        IF \E n \in AllNames : m[n] # Absent /\ table[n] = l
        THEN LET n == CHOOSE x \in AllNames : m[x] # Absent /\ table[x] = l
             IN  SetterWrites(m[n], ww, hh, tt)
        ELSE gu[l]]

\* drawImage with the transfer requested before the draw: the buffer gets
\* the previous contents of the render target.
DrawImageTransferFirst(gu, f, p, table, pboIndex, m, ww, hh, tt) ==
    LET gu2 == DrawUniforms(gu, table, m, ww, hh, tt)
    IN  [gu |-> gu2, fb |-> Render(gu2, ww, hh), pbos |-> [p EXCEPT ![pboIndex] = f]]

\* drawImage, lines 130-133: draw into the render target, then request the
\* transfer of the render target into the pixel-pack buffer pboIndex.
DrawImage(gu, f, p, table, pboIndex, m, ww, hh, tt) ==
    LET gu2 == DrawUniforms(gu, table, m, ww, hh, tt)
        fb2 == Render(gu2, ww, hh)
    IN  [gu |-> gu2, fb |-> fb2, pbos |-> [p EXCEPT ![pboIndex] = fb2]]

\* downloadImage: a new w*h image filled from the buffer (GetBufferSubData
\* waits for the pending transfer into that buffer).
DownloadImage(p, pboIndex) == p[pboIndex]

\* no default resolution: the caller's map is used as it came
WithResolutionNever(m) == m

\* the default resolution installed over a setter the caller gave
WithResolutionAlways(m) == [m EXCEPT !["resolution"] = ResolutionSetter]

\* Image and Animate, lines 140-144 and 157-161.
WithResolution(m) ==
    [m EXCEPT !["resolution"] = IF @ = Absent THEN ResolutionSetter ELSE @]

\* the time setter installed only when the caller gave none
WithTimeIfAbsent(m) == [m EXCEPT !["time"] = IF @ = Absent THEN TimeSetter ELSE @]

\* Animate, lines 162-164.
WithTime(m) == [m EXCEPT !["time"] = TimeSetter]

\* Animate, line 165 and the closure of line 163: the value of t that the
\* time setter reads when drawImage (line 167) calls it.
ClockAtDraw(tt, iv) == tt + iv

\* a priming test that lets the first readback happen after one draw
PrimingShort(f) == f < 1

\* skipping the readback for one iteration more (`<=` for `<`)
PrimingInclusive(f) == f <= NumPbos

\* Animate, line 168.
Priming(f) == f < NumPbos

\* reading the slot that has been in flight longest, two draws behind
ReadSlotOldest(f) == (f + 1) % NumPbos

\* Animate, line 172.
ReadSlot(f) == (f - 1) % NumPbos

\* Animate, line 167.
DrawSlot(f) == f % NumPbos

\* a send on stream can proceed: a receiver is waiting or the buffer has room
SendReady == receiving \/ Len(buf) < cap

\* a select that also returns when the send cannot proceed (a `default`)
CancelReadyOrBlocked == cancelled \/ ~SendReady

\* a receive from cancel can proceed
CancelReady == cancelled

\* Close deleting one transfer buffer instead of len(sh.pbos)
CloseOrderOnePbo ==
    <<"program", "fbo", "rbo", "canvas", "pbo0", "window">>

\* Close, lines 182-187: the objects deleted, in order.
CloseOrder ==
    <<"program", "fbo", "rbo", "canvas", "pbo0", "pbo1", "pbo2", "window">>

\* NewShader: what has been allocated when it returns with this outcome.
AllocatedBy(outcome) ==
    IF outcome \in {"initErr", "windowErr"} THEN {}
    ELSE IF outcome = "glInitErr" THEN {"window"}
    ELSE IF outcome = "linkErr" THEN Kinds \ {"program"}
    ELSE Kinds

\* ------------------------------------------------------------------ Init
Init ==
    /\ onceDone = FALSE /\ initCalls = 0 /\ glfwOk = FALSE
    /\ pendingOk = 0 /\ pendingErr = 0 /\ windowCalls = 0
    /\ shCount = 0 /\ shState = "none" /\ newErr = "nil"
    /\ w = 0 /\ h = 0
    /\ uniforms = [n \in AllNames |-> NoLoc]
    /\ glUniform = ZeroUniforms /\ fb = Blank /\ pbos = [s \in Slots |-> Blank]
    /\ live = {} /\ relLog = <<>> /\ closeErr = "none"
    /\ calls = 0 /\ animates = 0 /\ lastCall = NoCall /\ repeated = FALSE
    /\ ret = Blank
    /\ uv = [n \in AllNames |-> Absent]
    /\ pc = "idle" /\ frame = 0 /\ t = 0 /\ interval = 0 /\ img = Blank
    /\ cancelled = FALSE /\ cap = 0 /\ buf = <<>> /\ receiving = FALSE
    /\ delivered = <<>>
    /\ drawCount = 0 /\ reqAt = [s \in Slots |-> 0] /\ lastRead = NoRead
    /\ lastInvoked = NoInvoked /\ offered = <<>> /\ selects = 0

\* ------------------------------------------------------------- NewShader
\* glfw.Init called by every NewShader, without the Once
OnceRunsAlways(done) == TRUE

\* sync.Once.Do, line 38: the function runs unless an earlier Do ran it
OnceRuns(done) == ~done

\* lines 37-40 of one NewShader call: Do is atomic with respect to the other
\* callers, which wait for it; the error of glfw.Init stays in this call's
\* local err.
NewShaderEnter(initFails) ==
    /\ shCount + pendingOk + pendingErr < MaxShaders
    /\ shState # "live"
    /\ pc \in {"idle", "done"}
    /\ initFails => ~onceDone
    /\ onceDone' = TRUE
    /\ initCalls' = IF OnceRuns(onceDone) THEN initCalls + 1 ELSE initCalls
    /\ glfwOk' = IF OnceRuns(onceDone) THEN ~initFails ELSE glfwOk
    /\ IF OnceRuns(onceDone) /\ initFails
       THEN pendingErr' = pendingErr + 1 /\ UNCHANGED pendingOk
       ELSE pendingOk' = pendingOk + 1 /\ UNCHANGED pendingErr
    /\ UNCHANGED <<windowCalls, shVars, resVars, glVars, calls, animates, lastCall,
                   repeated, ret, uv, animVars, cancelled, chanVars, obsVars>>

\* lines 41-114 of one NewShader call that has passed the Do
NewShader(outcome, size, table) ==
    /\ shState # "live"
    /\ pc \in {"idle", "done"}
    \* lines 41-43: the call returns the error its own Do produced
    /\ IF outcome = "initErr"
       THEN pendingErr > 0 /\ pendingErr' = pendingErr - 1 /\ UNCHANGED pendingOk
       ELSE pendingOk > 0 /\ pendingOk' = pendingOk - 1 /\ UNCHANGED pendingErr
    \* lines 51-54: no window can be created while glfw is not initialised
    /\ (outcome # "initErr" /\ ~glfwOk) => outcome = "windowErr"
    /\ windowCalls' = IF outcome = "initErr" THEN windowCalls ELSE windowCalls + 1
    /\ UNCHANGED <<onceDone, initCalls, glfwOk>>
    /\ shCount' = shCount + 1
    /\ newErr' = IF outcome = "ok" THEN "nil" ELSE outcome
    /\ shState' = IF outcome = "ok" THEN "live" ELSE "failed"
    /\ live' = live \cup {<<shCount + 1, k>> : k \in AllocatedBy(outcome)}
    /\ IF outcome = "ok"
       THEN /\ w' = size[1] /\ h' = size[2]
            /\ uniforms' = table
       ELSE /\ w' = 0 /\ h' = 0
            /\ uniforms' = [n \in AllNames |-> NoLoc]
    \* a new window brings a new context: fresh program and buffers
    /\ glUniform' = ZeroUniforms /\ fb' = Blank /\ pbos' = [s \in Slots |-> Blank]
    /\ UNCHANGED <<calls, animates>> /\ lastCall' = NoCall /\ repeated' = FALSE
    /\ ret' = Blank
    /\ uv' = [n \in AllNames |-> Absent]
    /\ pc' = "idle" /\ frame' = 0 /\ t' = 0 /\ interval' = 0 /\ img' = Blank
    /\ cancelled' = FALSE /\ cap' = 0 /\ buf' = <<>> /\ receiving' = FALSE
    /\ delivered' = <<>>
    /\ drawCount' = 0 /\ reqAt' = [s \in Slots |-> 0] /\ lastRead' = NoRead
    /\ lastInvoked' = NoInvoked /\ offered' = <<>> /\ selects' = 0
    /\ UNCHANGED <<relLog, closeErr>>

\* ----------------------------------------------------------------- Image
Image(b) ==
    /\ shState = "live"
    /\ pc \in {"idle", "done"}
    /\ calls < MaxCalls
    /\ LET m == WithResolution(b)
           d == DrawImage(glUniform, fb, pbos, uniforms, 0, m, w, h, 0)
       IN  /\ uv' = m
           /\ glUniform' = d.gu /\ fb' = d.fb /\ pbos' = d.pbos
           /\ lastInvoked' = Invoked(uniforms, m)
           /\ ret' = DownloadImage(d.pbos, 0)
    /\ calls' = calls + 1
    /\ lastCall' = [op |-> "Image", b |-> b]
    /\ repeated' = (lastCall = [op |-> "Image", b |-> b])
    /\ drawCount' = 1
    /\ reqAt' = [s \in Slots |-> IF s = 0 THEN 1 ELSE 0]
    /\ lastRead' = [slot |-> 0, age |-> 0]
    /\ offered' = <<>> /\ selects' = 0
    \* the channels of an Animate that has returned are gone by now
    /\ pc' = "idle" /\ cancelled' = FALSE
    /\ cap' = 0 /\ buf' = <<>> /\ receiving' = FALSE /\ delivered' = <<>>
    /\ UNCHANGED <<onceVars, shVars, resVars, animates, frame, t, interval, img>>

\* --------------------------------------------------------------- Animate
AnimateCall(iv, b, c) ==
    /\ shState = "live"
    /\ pc \in {"idle", "done"}
    /\ calls < MaxCalls
    /\ animates < MaxAnimates
    /\ calls' = calls + 1
    /\ animates' = animates + 1
    /\ lastCall' = [op |-> "Animate", b |-> b]
    /\ repeated' = FALSE
    /\ uv' = b
    /\ interval' = iv /\ t' = 0 /\ frame' = 0 /\ pc' = "loop" /\ img' = Blank
    /\ cancelled' = FALSE
    /\ cap' = c /\ buf' = <<>> /\ receiving' = FALSE /\ delivered' = <<>>
    /\ drawCount' = 0 /\ lastRead' = NoRead /\ reqAt' = [s \in Slots |-> 0]
    /\ ret' = Blank /\ lastInvoked' = NoInvoked
    /\ offered' = <<>> /\ selects' = 0
    /\ UNCHANGED <<onceVars, shVars, resVars, glVars>>

\* one iteration of the loop, lines 157-172, up to `continue` or the select
AnimateIter ==
    /\ pc = "loop"
    /\ frame <= MaxFrame
    /\ LET m == WithTime(WithResolution(uv))
           clock == ClockAtDraw(t, interval)
           d == DrawImage(glUniform, fb, pbos, uniforms, DrawSlot(frame), m, w, h, clock)
       IN  /\ uv' = m
           /\ t' = t + interval
           /\ glUniform' = d.gu /\ fb' = d.fb /\ pbos' = d.pbos
           /\ lastInvoked' = Invoked(uniforms, m)
           /\ drawCount' = drawCount + 1
           /\ reqAt' = [reqAt EXCEPT ![DrawSlot(frame)] = drawCount + 1]
           /\ IF Priming(frame)
              THEN /\ frame' = frame + 1
                   /\ UNCHANGED <<pc, img, lastRead, offered, selects>>
              ELSE /\ img' = DownloadImage(d.pbos, ReadSlot(frame))
                   /\ lastRead' = [slot |-> ReadSlot(frame),
                                   age |-> (drawCount + 1) - reqAt'[ReadSlot(frame)]]
                   \* the iteration that requested the transfer read back
                   /\ offered' = Append(offered, reqAt'[ReadSlot(frame)] - 1)
                   /\ selects' = selects + 1
                   /\ pc' = "select"
                   /\ UNCHANGED frame
    /\ UNCHANGED <<onceVars, shVars, resVars, calls, animates, lastCall, repeated, ret, interval,
                   cancelled, chanVars>>

\* the cancel case leaving the select only (`break`), not Animate
SelectCancelBreak ==
    /\ pc = "select"
    /\ CancelReady
    /\ pc' = "loop"
    /\ frame' = frame + 1
    /\ UNCHANGED <<onceVars, shVars, resVars, glVars, calls, animates, lastCall,
                   repeated, ret, uv, t, interval, img, cancelled, chanVars,
                   obsVars>>

\* select, lines 174-175
SelectCancel ==
    /\ pc = "select"
    /\ CancelReady
    /\ pc' = "done"
    \* the locals of Animate end with it
    /\ frame' = 0 /\ t' = 0 /\ interval' = 0 /\ img' = Blank
    /\ UNCHANGED <<onceVars, shVars, resVars, glVars, calls, animates, lastCall, repeated, ret, uv,
                   cancelled, chanVars, obsVars>>

\* select, line 176, then frame++
SelectSend ==
    /\ pc = "select"
    /\ SendReady
    /\ delivered' = Append(delivered, img)
    /\ IF receiving
       THEN receiving' = FALSE /\ UNCHANGED buf
       ELSE buf' = Append(buf, img) /\ UNCHANGED receiving
    /\ frame' = frame + 1
    /\ pc' = "loop"
    /\ UNCHANGED <<onceVars, shVars, resVars, glVars, calls, animates, lastCall, repeated, ret, uv,
                   t, interval, img, cancelled, cap, obsVars>>

\* The caller closes the cancel channel.  Animate looks at its channels only
\* in the select, so what the caller and the consumer do while an iteration
\* runs is taken when Animate stands at the select.
Cancel ==
    /\ pc = "select"
    /\ ~cancelled
    /\ cancelled' = TRUE
    /\ UNCHANGED <<onceVars, shVars, resVars, glVars, calls, animates, lastCall, repeated, ret, uv,
                   animVars, chanVars, obsVars>>

\* the consumer receives from stream: takes a buffered image, or blocks
ConsumerReceive ==
    /\ pc = "select"
    /\ ~receiving
    /\ IF buf # <<>>
       THEN buf' = Tail(buf) /\ UNCHANGED receiving
       ELSE receiving' = TRUE /\ UNCHANGED buf
    /\ UNCHANGED <<onceVars, shVars, resVars, glVars, calls, animates, lastCall, repeated, ret, uv,
                   animVars, cancelled, cap, delivered, obsVars>>

\* ----------------------------------------------------------------- Close
Close ==
    /\ shState = "live"
    /\ pc \in {"idle", "done"}
    /\ relLog' = relLog \o [i \in 1 .. Len(CloseOrder) |-> <<shCount, CloseOrder[i]>>]
    /\ live' = live \ {<<shCount, CloseOrder[i]>> : i \in 1 .. Len(CloseOrder)}
    /\ closeErr' = "nil"
    /\ shState' = "closed"
    /\ UNCHANGED <<onceVars, shCount, newErr, w, h, uniforms, glVars, calls,
                   animates, lastCall, repeated, ret, uv, animVars, cancelled, chanVars, obsVars>>

Next ==
    \/ \E f \in BOOLEAN : NewShaderEnter(f)
    \/ \E o \in Outcomes, sz \in Sizes, tb \in Tables : NewShader(o, sz, tb)
    \/ \E b \in Bindings : Image(b)
    \/ \E iv \in Intervals, b \in Bindings, c \in 0 .. MaxCap : AnimateCall(iv, b, c)
    \/ AnimateIter
    \/ SelectCancel
    \/ SelectSend
    \/ Cancel
    \/ ConsumerReceive
    \/ Close

Spec == Init /\ [][Next]_vars

\* The send case of the select while iterations remain within MaxFrame: by
\* then the consumer has stopped receiving and the channel has no room.
SelectSendWithin == frame < MaxFrame /\ SelectSend

\* The steps of Animate, of its caller and of its consumer, on shaders made
\* and closed around it. Image cannot run while Animate does and is left out.
LiveNext ==
    \/ \E f \in BOOLEAN : NewShaderEnter(f)
    \/ \E o \in Outcomes, sz \in Sizes, tb \in Tables : NewShader(o, sz, tb)
    \/ \E iv \in Intervals, b \in Bindings, c \in 0 .. MaxCap : AnimateCall(iv, b, c)
    \/ AnimateIter
    \/ SelectCancel
    \/ SelectSendWithin
    \/ Cancel
    \/ ConsumerReceive
    \/ Close

\* Every draw and readback returns (the iteration is taken when it can be),
\* and a select that is ready to take the cancel case again and again takes
\* it at some point.
LiveSpec ==
    Init /\ [][LiveNext]_vars /\ WF_vars(AnimateIter) /\ SF_vars(SelectCancel)

\* ---------------------------------------------------------------- claims

TimeLoc == uniforms["time"]
InAnimate == pc \in {"loop", "select"}
\* a step of Animate that calls drawImage
AnimateDraws == pc = "loop" /\ drawCount' = drawCount + 1
\* a step of Image
ImageCalled == calls' = calls + 1 /\ lastCall'.op = "Image"
\* a map without the bindings whose name is not in the table
OmitMissing(m, table) ==
    [n \in AllNames |-> IF table[n] = NoLoc THEN Absent ELSE m[n]]
Occurrences(s, x) == Cardinality({i \in 1 .. Len(s) : s[i] = x})
IndexOf(s, x) == CHOOSE i \in 1 .. Len(s) : s[i] = x

\* C1: at the step that sends the first image on stream, the Animate call
\* has already issued at least N = 3 drawImage calls.
C1_FirstImageAfterPriming ==
    [][(delivered = <<>> /\ delivered' # <<>>) => drawCount >= NumPbos]_vars

C1_Witness == InAnimate /\ Len(delivered) = 1 /\ drawCount = NumPbos + 1

\* C2 as stated: once cancel is raised while nothing has been delivered,
\* Animate never sends an image, whatever the consumer does.
C2_NoSendAfterEarlyCancel ==
    [][(InAnimate /\ cancelled /\ delivered = <<>>) => delivered' = <<>>]_vars

\* C2 amended: with cancel raised, nothing delivered yet and no receive or
\* free capacity ready at the delivery point, the select leaves Animate
\* without sending; only a ready consumer can still get an image.
C2_EarlyCancelReturnsWhenSendBlocked ==
    [][(pc = "select" /\ cancelled /\ delivered = <<>> /\ ~SendReady /\ pc' # "select")
          => (pc' = "done" /\ delivered' = <<>> /\ drawCount' = drawCount)]_vars

C2_Witness ==
    /\ pc = "done" /\ cancelled /\ delivered = <<>> /\ ~SendReady
    /\ drawCount = NumPbos + 1

\* C3: the k-th image delivered was drawn with time equal to
\* (k-1) * interval (in seconds, as a float32).
C3_TimeOfKthImage ==
    (InAnimate /\ TimeLoc # NoLoc) =>
        \A k \in 1 .. Len(delivered) :
            delivered[k].u[TimeLoc] = TimeValue((k - 1) * interval)

\* C4: a draw calls the setters of exactly the names that are in the uniform
\* table, and the uniform values and the rendered image it leaves are those
\* of the same draw with the bindings of missing names omitted.
C4_MissingNamesIgnored ==
    [][(AnimateDraws \/ ImageCalled) =>
          /\ lastInvoked' = [n \in AllNames |->
                               IF uniforms[n] # NoLoc THEN uv'[n] ELSE Absent]
          /\ glUniform' = DrawUniforms(glUniform, uniforms,
                                       OmitMissing(uv', uniforms), w, h, t')
          /\ fb' = Render(glUniform', w, h)]_vars

C4_Witness ==
    /\ shState = "live" /\ lastCall.op = "Image"
    /\ uniforms["time"] # NoLoc /\ uniforms["resolution"] = NoLoc
    /\ uv["time"] # Absent /\ lastCall.b["resolution"] # Absent
    /\ lastInvoked["time"] = uv["time"] /\ lastInvoked["resolution"] = Absent

\* C5: an Image call that repeats the bindings of the Image call right
\* before it returns the same image as that call.
C5_ImageTwiceSame ==
    [][(ImageCalled /\ lastCall.op = "Image" /\ lastCall'.b = lastCall.b)
          => ret' = ret]_vars

\* the pair of calls started from a state left by an earlier call: the
\* `time` uniform the pair did not bind is not the one of a fresh program
C5_Witness ==
    /\ repeated /\ calls = 3
    /\ TimeLoc # NoLoc /\ lastCall.b["time"] = Absent
    /\ ret.u[TimeLoc] # ZeroValue

\* C6: Animate has returned only if the cancel signal was raised.
C6_ReturnsOnlyOnCancel == pc = "done" => cancelled

C6_Witness == pc = "done" /\ cancelled /\ Len(delivered) >= 1

\* C7: in every iteration of Animate the map entry `time` is the clock's
\* setter, and it is the setter drawImage calls for the `time` uniform.
C7_ClockOwnsTime ==
    [][AnimateDraws =>
          /\ uv'["time"] = TimeSetter
          /\ TimeLoc # NoLoc =>
                /\ lastInvoked'["time"] = TimeSetter
                /\ glUniform'[TimeLoc][1] = "f32"]_vars

C7_Witness ==
    /\ InAnimate /\ lastCall.b["time"] # Absent /\ TimeLoc # NoLoc
    /\ drawCount >= 2 /\ lastInvoked["time"] = TimeSetter

C9_ReadAfterFullCycle ==
    (lastCall.op = "Animate" /\ lastRead # NoRead) => lastRead.age >= NumPbos - 1

\* C10: the draw of iteration i of Animate sees time = i * interval.
C10_TimeOfIteration ==
    (InAnimate /\ drawCount >= 1 /\ TimeLoc # NoLoc) =>
        glUniform[TimeLoc] = TimeValue((drawCount - 1) * interval)

\* C11: an iteration of Animate with frame < N reads nothing back; an
\* iteration with frame >= N reads slot (frame-1) mod N, whose transfer the
\* iteration just before it issued, and gets the image that iteration drew.
\* So the images offered on stream are those of iterations N-1, N, N+1, ...
\* in order, one each, every send delivers the image just read, and the
\* iterations 0 .. N-2 are never offered.
C11_ReadbackOneBehind ==
    [][/\ (AnimateDraws /\ frame < NumPbos) =>
            (lastRead' = lastRead /\ offered' = offered /\ img' = img)
       /\ (AnimateDraws /\ frame >= NumPbos) =>
            /\ lastRead' = [slot |-> (frame - 1) % NumPbos, age |-> 1]
            /\ offered' = Append(offered, frame - 1)
            /\ img' = fb
       /\ \A k \in 1 .. Len(offered') : offered'[k] = NumPbos - 2 + k
       /\ Len(delivered') <= Len(offered')
       /\ Len(offered') <= Len(delivered') + 1
       /\ (Len(delivered') = Len(delivered) + 1) =>
            (delivered' = Append(delivered, img) /\ Len(delivered') = Len(offered))
      ]_vars

C11_Witness == pc = "select" /\ offered = <<NumPbos - 1, NumPbos>> /\ Len(delivered) = 1

\* a step of the select that takes the cancel case
CancelObserved == pc = "select" /\ pc' # "select" /\ delivered' = delivered
\* a step within one Animate call that has returned
AfterReturn == pc = "done" /\ calls' = calls /\ shCount' = shCount
NoMoreWork ==
    /\ CancelObserved => pc' = "done"
    /\ AfterReturn =>
         (drawCount' = drawCount /\ offered' = offered /\ delivered' = delivered)

\* C12 as stated: every iteration of Animate's loop checks cancel exactly
\* once, so after i iterations the select has been entered i times; and once
\* the cancel case is taken there is no further draw, readback or delivery.
C12_CheckedEveryIteration ==
    [][((pc' = "loop") => selects' = frame') /\ NoMoreWork]_vars

\* C12, amended: only the iterations with frame >= N reach the select, once
\* each, and the iterations with frame < N never look at cancel; once the
\* cancel case is taken there is no further draw, readback or delivery.
C12_CheckedFromFrameN ==
    [][/\ (pc' = "loop") =>
            selects' = (IF frame' > NumPbos THEN frame' - NumPbos ELSE 0)
       /\ (pc' = "select") =>
            (frame' >= NumPbos /\ selects' = frame' - NumPbos + 1)
       /\ NoMoreWork
      ]_vars

C12_Witness == pc = "done" /\ selects = 2 /\ drawCount = NumPbos + 2 /\ Len(delivered) = 1

\* C13: Animate holds at most one image that it has read back and not yet
\* sent, issues no draw while it stands at the select with that image, and
\* the draws it has issued never exceed the images sent by more than N + 1.
C13_ThrottledByConsumer ==
    [][/\ Len(offered') - Len(delivered') \in {0, 1}
       /\ (pc' = "select") <=> (InAnimate' /\ Len(offered') = Len(delivered') + 1)
       /\ (pc = "select" /\ calls' = calls) => drawCount' = drawCount
       /\ drawCount' <= Len(delivered') + NumPbos + 1
      ]_vars

C13_Witness ==
    pc = "select" /\ Len(delivered) = 1 /\ drawCount = Len(delivered) + NumPbos + 1

\* C14: once cancel is closed while Animate runs, Animate returns at some
\* point, whether the consumer receives or not.
C14_CancelledReturns == (InAnimate /\ cancelled) ~> (pc = "done")

C14_Witness == pc = "done" /\ cancelled /\ selects = 2 /\ Len(delivered) = 1

\* C15: however many NewShader calls are made, one after the other or several
\* at once, glfw.Init is executed at most once.
C15_InitAtMostOnce == initCalls <= 1

\* two calls have passed the Do and neither has gone further
C15_Witness == initCalls = 1 /\ pendingOk + pendingErr >= 2

\* the image Image(b) returns on a shader of this size and uniform table on
\* which nothing has been drawn yet
FreshImage(table, b, ww, hh) ==
    LET d == DrawImage(ZeroUniforms, Blank, [s \in Slots |-> Blank], table, 0,
                       WithResolution(b), ww, hh, 0)
    IN  DownloadImage(d.pbos, 0)
\* the bindings name every uniform of the program but resolution
BindsAll(table, b) ==
    \A n \in AllNames \ {"resolution"} : table[n] # NoLoc => b[n] # Absent

\* C16 as stated: the image Image returns depends on the size and on the
\* bindings of that call only, so after any history of Image and Animate
\* calls it is the image the same call returns after none.
C16_ImageIgnoresHistory ==
    (lastCall.op = "Image") => ret = FreshImage(uniforms, lastCall.b, w, h)

\* C16, amended: that holds when the bindings of the call name every uniform
\* of the program (resolution gets its default); a uniform the call does not
\* bind keeps the value an earlier call left.
C16_ImageIgnoresHistoryWhenAllBound ==
    (lastCall.op = "Image" /\ BindsAll(uniforms, lastCall.b)) =>
        ret = FreshImage(uniforms, lastCall.b, w, h)

\* Image with time bound, after an Animate on the same shader set time
C16_Witness ==
    /\ lastCall.op = "Image" /\ TimeLoc # NoLoc /\ lastCall.b["time"] # Absent
    /\ pbos[1] # Blank

\* Image or Animate has returned; uv is the map the caller passed, as it is now
CallReturned ==
    lastCall.op = "Image" \/ (lastCall.op = "Animate" /\ pc = "done")

\* C17 as stated: after Image or Animate returns, the map the caller passed
\* holds exactly the keys and setters it held before the call.
C17_CallerMapUnchanged == CallReturned => uv = lastCall.b

\* C17, amended: the map holds the caller's entries, but for a resolution
\* entry added when the caller gave none and, after Animate, a time entry
\* that is Animate's clock whatever the caller gave.
C17_CallerMapGainsDefaults ==
    CallReturned =>
        /\ uv["resolution"] = (IF lastCall.b["resolution"] = Absent
                               THEN ResolutionSetter ELSE lastCall.b["resolution"])
        /\ uv["time"] = (IF lastCall.op = "Animate"
                         THEN TimeSetter ELSE lastCall.b["time"])

C17_Witness ==
    /\ pc = "done" /\ lastCall.op = "Animate"
    /\ lastCall.b["time"] # Absent /\ lastCall.b["resolution"] # Absent

\* C18: when NewShader has returned an error, nothing that call allocated
\* (window, framebuffer, renderbuffer, transfer buffers, geometry buffer) is
\* still live.
C18_FailedLeavesNothing ==
    (shState = "failed") => \A k \in Kinds : <<shCount, k>> \notin live

\* C19: when the one glfw.Init of the process has failed, every NewShader
\* call that has returned has returned that error, and none has gone on to
\* glfw.CreateWindow.
C19_InitErrorForAll ==
    (onceDone /\ ~glfwOk) =>
        (windowCalls = 0 /\ (shCount >= 1 => newErr = "initErr"))

====
